---- MODULE Spec2Model ----
(***************************************************************************)
(* Model of the founder-data scripts of yc_companies/.                     *)
(*                                                                         *)
(* A Python str is modelled as the sequence of its characters (each a      *)
(* one-character string), so that str.strip and str.startswith are         *)
(* computed, not assumed.  Python's None is the value None below, which no *)
(* character sequence equals.  A dict is a function whose DOMAIN is the    *)
(* set of its keys.                                                        *)
(***************************************************************************)
EXTENDS Integers, Sequences, FiniteSets, TLC

VARIABLES
  \* calls of the two pure functions on one record
  record,           \* the dict passed to is_pattern_data and to the merge
  given,            \* that dict as it was before any call
  override,         \* the override passed to the merge
  fstep,            \* "start", "classified", "merged", "remerged"
  classified,       \* outcome of is_pattern_data(record)
  updated_company,  \* update_company_with_real_data(record, override)
  updated_twice,    \* update_company_with_real_data(updated_company, override)
  \* one run of batch_extract_founders.main
  file,             \* the CSV file: exists, header (None if empty), rows
  original,         \* the CSV file as it was when the run started
  pc,               \* position of main, "idle" when main is not run
  exc,              \* the exception that ended the run, "" if none
  companies,        \* main's list of row dicts
  fieldnames,       \* reader.fieldnames
  idx,              \* position of the for loop of line 595 (next row)
  updated,          \* positions of the rows the loop has merged
  updated_count,
  pattern_count,
  real_count,
  written,          \* rows writerows has written so far
  summary,          \* the counts the summary prints
  run,              \* 1 in the first run of the driver, 2 in a run after it
  first_output,     \* the CSV file as the first run left it
  first_exc,        \* the exception that ended the first run, "" if none
  \* a call of extract_company_slug
  yc_link,          \* the link passed
  slug,             \* the outcome of the call
  slug_pc,          \* "idle", "start", "returned"
  \* one run, as a program, of one of the three reporting scripts
  prog,             \* the script run, "none" when none is
  ppc,              \* its position
  pexc,             \* the exception that ended it, "" if none
  json_file,        \* companies_needing_founders.json: exists, rows
  json_before,      \* that file as it was when the script started
  loaded,           \* the script's list of row dicts
  pattern_companies,\* the rows the script keeps as placeholder rows
  main_return       \* whether main() returned, and the value it returned

fvars ==
  <<record, given, override, fstep, classified, updated_company, updated_twice>>

dvars ==
  <<file, original, pc, exc, companies, fieldnames, idx, updated,
    updated_count, pattern_count, real_count, written, summary>>

\* The variables of a second run, of the slug call and of the other scripts.
xvars ==
  <<run, first_output, first_exc, yc_link, slug, slug_pc, prog, ppc, pexc, json_file,
    json_before, loaded, pattern_companies, main_return>>

vars == <<fvars, dvars, xvars>>

\* ------------------------------------------------------------------ values

\* Python's None (as a dict value: csv.DictReader's restval for a short row).
None == <<"None">>

\* Python's None as a dict key: csv.DictReader's restkey for a long row.
NoneKey == "None"

IsNone(v) == v = None

EmptyStr == <<>>

\* Characters str.strip() removes.
Whitespace == {" ", "\t", "\n", "\r"}

RECURSIVE lstrip(_)
lstrip(s) ==
  IF s # <<>> /\ Head(s) \in Whitespace THEN lstrip(Tail(s)) ELSE s

RECURSIVE rstrip(_)
rstrip(s) ==
  IF s # <<>> /\ s[Len(s)] \in Whitespace
    THEN rstrip(SubSeq(s, 1, Len(s) - 1))
    ELSE s

\* str.strip()
strip(s) == rstrip(lstrip(s))

\* str.startswith(prefix)
startswith(s, prefix) ==
  /\ Len(s) >= Len(prefix)
  /\ SubSeq(s, 1, Len(prefix)) = prefix

\* dict.get(key, default)
Get(d, key, default) == IF key \in DOMAIN d THEN d[key] ELSE default

\* ------------------------------------------------------------ string data

S_Team == <<"T","e","a","m">>
S_TeamPadded == <<" ","T","e","a","m"," ">>
S_Teamwork == <<"T","e","a","m","w","o","r","k">>
S_Blank == <<" ">>
S_Ann == <<"A","n","n">>
S_Lee == <<"L","e","e">>
S_HelloPrefix == <<"h","e","l","l","o","@">>
S_HelloFreya == <<"h","e","l","l","o","@","f","r","e","y","a",".","a","i">>
S_HelloZedPadded == <<" ","h","e","l","l","o","@","z","e","d",".","i","o">>
S_OhHelloZed == <<"o","h","-","h","e","l","l","o","@","z","e","d",".","i","o">>
S_AnnEmail == <<"a","n","n","@","a","c","m","e",".","i","o">>
S_AnnLinkedin == <<"l","i","n","k","e","d","i","n",".","c","o","m","/","i","n","/","a","n","n">>
S_EngIntern == <<"E","n","g","i","n","e","e","r","i","n","g"," ","I","n","t","e","r","n">>
S_SeriesA == <<"S","e","r","i","e","s"," ","A">>
S_2M == <<"$","2","M">>
S_Fall2024 == <<"F","a","l","l"," ","2","0","2","4">>
S_AcmeSite == <<"a","c","m","e",".","i","o">>
S_Pattern == <<"p","a","t","t","e","r","n">>
S_Acme == <<"A","c","m","e">>
S_Zed == <<"Z","e","d">>
S_AcmeLink == <<"y","c","o","m","b","i","n","a","t","o","r",".","c","o","m","/","c","o","m","p","a","n","i","e","s","/","a","c","m","e">>
S_Extra == <<"e","x","t","r","a">>
S_UpliftAI == <<"U","p","l","i","f","t"," ","A","I">>
S_Freya == <<"F","r","e","y","a">>

\* ---------------------------------------------------- program constants

\* Defaults of update_company_with_real_data.
DEFAULT_JOBS == <<"S","o","f","t","w","a","r","e"," ","E","n","g","i","n","e","e","r","i","n","g"," ","I","n","t","e","r","n",","," ","P","r","o","d","u","c","t"," ","I","n","t","e","r","n">>
DEFAULT_STAGE == <<"S","e","e","d">>
DEFAULT_AMOUNT == <<"$","1",".","5","M">>
DEFAULT_DATE == <<"S","u","m","m","e","r"," ","2","0","2","5">>

\* The data_quality marker; "*" stands for the check-mark glyph of the source.
REAL_MARKER == <<"*"," ","R","E","A","L">>

\* The first two entries of the override table (the other 73 have the same
\* five keys and, like these, values that the classifier accepts as real).
REAL_FOUNDER_DATA ==
  (S_UpliftAI :> [founder_first |-> <<"H","a","m","m","a","d">>,
                  founder_last |-> <<"M","a","l","i","k">>,
                  founder_email |-> <<"h","a","m","m","a","d","@","u","p","l","i","f","t","a","i",".","o","r","g">>,
                  founder_linkedin |-> <<"l","i","n","k","e","d","i","n",".","c","o","m","/","i","n","/","h","a","m","m","a","d","2">>,
                  website |-> <<"u","p","l","i","f","t","a","i",".","o","r","g">>])
  @@
  (S_Freya :> [founder_first |-> <<"T","u","n","g","a">>,
               founder_last |-> <<"B","a","y","r","a","k">>,
               founder_email |-> <<"t","u","n","g","a","@","f","r","e","y","a","v","o","i","c","e",".","a","i">>,
               founder_linkedin |-> <<"l","i","n","k","e","d","i","n",".","c","o","m","/","i","n","/","t","u","n","g","a","-","b","a","y","r","a","k">>,
               website |-> <<"f","r","e","y","a","v","o","i","c","e",".","a","i">>])

\* The five fields a merge takes from the override.
FounderFields ==
  {"founder_first_name", "founder_last_name", "founder_email",
   "founder_linkedin", "website"}

\* The four fields a merge keeps or defaults.
AuxFields == {"job_openings", "funding_stage", "amount_raised", "date_raised"}

\* The ten fields a merge writes.
TargetFields == FounderFields \cup AuxFields \cup {"data_quality"}

\* ------------------------------------------------------- pure functions

\* The result of a call: exc is "" when the call returned ret.
Returned(v) == [exc |-> "", ret |-> v]
Raised(e) == [exc |-> e, ret |-> FALSE]

\* is_pattern_data(company): its return value, or the AttributeError that
\* None.strip() raises.  The two .strip() calls of lines 543-544 run before
\* any test; the one of line 550 only when the first two tests fail.
is_pattern_data_no_strip(company) ==
  LET first == Get(company, "founder_first_name", EmptyStr)
      email == Get(company, "founder_email", EmptyStr)
      linkedin == Get(company, "founder_linkedin", EmptyStr)
  IN IF IsNone(first) \/ IsNone(email) THEN Raised("AttributeError")
     ELSE IF first = S_Team \/ first = EmptyStr THEN Returned(TRUE)
     ELSE IF startswith(email, S_HelloPrefix) THEN Returned(TRUE)
     ELSE IF IsNone(linkedin) THEN Raised("AttributeError")
     ELSE IF linkedin = EmptyStr THEN Returned(TRUE)
     ELSE Returned(FALSE)

is_pattern_data(company) ==
  LET first == Get(company, "founder_first_name", EmptyStr)
      email == Get(company, "founder_email", EmptyStr)
      linkedin == Get(company, "founder_linkedin", EmptyStr)
  IN IF IsNone(first) \/ IsNone(email) THEN Raised("AttributeError")
     ELSE LET founder_first == strip(first)
              founder_email == strip(email)
          IN IF founder_first = S_Team \/ founder_first = EmptyStr
               THEN Returned(TRUE)
             ELSE IF startswith(founder_email, S_HelloPrefix)
               THEN Returned(TRUE)
             ELSE IF IsNone(linkedin) THEN Raised("AttributeError")
             ELSE IF strip(linkedin) = EmptyStr THEN Returned(TRUE)
             ELSE Returned(FALSE)

\* The value update_company_with_real_data gives field k of its result.
MergedValue(company, real_data, k) ==
  CASE k = "founder_first_name" -> real_data.founder_first
    [] k = "founder_last_name" -> real_data.founder_last
    [] k = "founder_email" -> real_data.founder_email
    [] k = "founder_linkedin" -> real_data.founder_linkedin
    [] k = "website" -> real_data.website
    [] k = "job_openings" -> Get(company, "job_openings", DEFAULT_JOBS)
    [] k = "funding_stage" -> Get(company, "funding_stage", DEFAULT_STAGE)
    [] k = "amount_raised" -> Get(company, "amount_raised", DEFAULT_AMOUNT)
    [] k = "date_raised" -> Get(company, "date_raised", DEFAULT_DATE)
    [] k = "data_quality" -> REAL_MARKER
    [] OTHER -> company[k]

\* A merge that keeps a website the record already has.
update_company_keeps_website(company, real_data) ==
  [k \in (DOMAIN company) \cup TargetFields |->
     IF k = "website" THEN Get(company, "website", real_data.website)
     ELSE MergedValue(company, real_data, k)]

\* A merge that appends the marker to the data_quality the record has.
update_company_appends_marker(company, real_data) ==
  [k \in (DOMAIN company) \cup TargetFields |->
     IF k = "data_quality"
       THEN Get(company, "data_quality", EmptyStr) \o REAL_MARKER
       ELSE MergedValue(company, real_data, k)]

\* update_company_with_real_data(company, real_data): the new dict
\* {**company, <the ten target fields>}.
update_company_with_real_data(company, real_data) ==
  [k \in (DOMAIN company) \cup TargetFields |->
     MergedValue(company, real_data, k)]

\* ------------------------------------------- the functions, called alone

\* Marks a key the record does not have, while the records are enumerated.
Absent == <<"Absent">>

FirstNameValues ==
  {Absent, None, EmptyStr, S_Team, S_TeamPadded, S_Teamwork, S_Ann}
EmailValues == {Absent, None, S_HelloZedPadded, S_OhHelloZed, S_AnnEmail}
LinkedinValues == {Absent, None, EmptyStr, S_Blank, S_AnnLinkedin}
JobValues == {Absent, None, EmptyStr, S_EngIntern}
StageValues == {Absent, EmptyStr, S_SeriesA}
AmountValues == {Absent, S_2M}
DateValues == {EmptyStr, S_Fall2024}
WebsiteValues == {Absent, S_AcmeSite}
QualityValues == {Absent, S_Pattern}
LinkValues == {Absent, S_AcmeLink}

\* The dict with the given values, without the keys marked Absent.
MakeRecord(full) ==
  [k \in {f \in DOMAIN full : full[f] # Absent} |-> full[k]]

Records ==
  { MakeRecord([Company_Name |-> S_Acme,
                founder_first_name |-> f,
                founder_last_name |-> S_Lee,
                founder_email |-> e,
                founder_linkedin |-> l,
                website |-> w,
                job_openings |-> j,
                funding_stage |-> s,
                amount_raised |-> a,
                date_raised |-> d,
                data_quality |-> q,
                YC_Link |-> y]) :
      f \in FirstNameValues, e \in EmailValues, l \in LinkedinValues,
      w \in WebsiteValues, j \in JobValues, s \in StageValues,
      a \in AmountValues, d \in DateValues, q \in QualityValues,
      y \in LinkValues }

Overrides == {REAL_FOUNDER_DATA[n] : n \in DOMAIN REAL_FOUNDER_DATA}

NoDict == <<>>

NoFile == [exists |-> FALSE, header |-> None, rows |-> <<>>]
NoSummary == [total |-> 0, real |-> 0, pattern |-> 0]

NoJson == [exists |-> FALSE, rows |-> <<>>]

\* main() has not returned.
NotReturned == [returned |-> FALSE, value |-> None]

\* No slug is extracted.
SlugIdle ==
  /\ yc_link = None
  /\ slug = [exc |-> "", ret |-> None]
  /\ slug_pc = "idle"

\* None of the reporting scripts is run.
ScriptsIdle ==
  /\ prog = "none"
  /\ ppc = "idle"
  /\ pexc = ""
  /\ json_file = NoJson
  /\ json_before = NoJson
  /\ loaded = <<>>
  /\ pattern_companies = <<>>
  /\ main_return = NotReturned

\* The driver has not been run before.
FirstRun ==
  /\ run = 1
  /\ first_output = NoFile
  /\ first_exc = ""

\* main is not run.
DriverIdle ==
  /\ file = NoFile
  /\ original = NoFile
  /\ pc = "idle"
  /\ exc = ""
  /\ companies = <<>>
  /\ fieldnames = None
  /\ idx = 1
  /\ updated = {}
  /\ updated_count = 0
  /\ pattern_count = 0
  /\ real_count = 0
  /\ written = 0
  /\ summary = NoSummary

InitFn ==
  /\ DriverIdle
  /\ FirstRun
  /\ SlugIdle
  /\ ScriptsIdle
  /\ record \in Records
  /\ given = record
  /\ override \in Overrides
  /\ fstep = "start"
  /\ classified = Raised("")
  /\ updated_company = NoDict
  /\ updated_twice = NoDict

\* is_pattern_data(record) is called; it assigns to nothing but locals.
CallIsPattern ==
  /\ fstep = "start"
  /\ classified' = is_pattern_data(record)
  /\ fstep' = "classified"
  /\ UNCHANGED <<record, given, override, updated_company, updated_twice>>
  /\ UNCHANGED dvars
  /\ UNCHANGED xvars

\* A merge that updates the dict it is given and returns it.
CallUpdateInPlace ==
  /\ fstep = "classified"
  /\ updated_company' = update_company_with_real_data(record, override)
  /\ record' = updated_company'
  /\ fstep' = "merged"
  /\ UNCHANGED <<given, override, classified, updated_twice>>
  /\ UNCHANGED dvars
  /\ UNCHANGED xvars

\* update_company_with_real_data(record, override) is called; it builds a
\* new dict and assigns to nothing but locals.
CallUpdate ==
  /\ fstep = "classified"
  /\ updated_company' = update_company_with_real_data(record, override)
  /\ fstep' = "merged"
  /\ UNCHANGED <<record, given, override, classified, updated_twice>>
  /\ UNCHANGED dvars
  /\ UNCHANGED xvars

\* The merge is called again, on its own result.
CallUpdateAgain ==
  /\ fstep = "merged"
  /\ updated_twice' =
       update_company_with_real_data(updated_company, override)
  /\ fstep' = "remerged"
  /\ UNCHANGED <<record, given, override, classified, updated_company>>
  /\ UNCHANGED dvars
  /\ UNCHANGED xvars

NextFn == CallIsPattern \/ CallUpdate \/ CallUpdateAgain

SpecFn == InitFn /\ [][NextFn]_vars

\* --------------------------------------------- claims on the functions

MergeDone == fstep \in {"merged", "remerged"}

\* The three classifier fields hold strings (a key may be missing).
StringFields(d) ==
  \A k \in {"founder_first_name", "founder_email", "founder_linkedin"} :
    ~IsNone(Get(d, k, EmptyStr))

\* The trimmed value of field k, a missing value counting as empty.
Trimmed(d, k) ==
  LET v == Get(d, k, EmptyStr) IN IF IsNone(v) THEN EmptyStr ELSE strip(v)

\* The placeholder rule as the unordered disjunction of its three conditions.
PlaceholderRule(d) ==
  \/ Trimmed(d, "founder_first_name") = EmptyStr
  \/ Trimmed(d, "founder_first_name") = S_Team
  \/ startswith(Trimmed(d, "founder_email"), S_HelloPrefix)
  \/ Trimmed(d, "founder_linkedin") = EmptyStr

\* C1: on every record whose three classifier fields are strings (or
\* missing), is_pattern_data returns true exactly when the trimmed first
\* name is empty or "Team", or the trimmed email starts with "hello@", or
\* the trimmed LinkedIn value is empty; nothing else of the record counts.
C1_Classifier ==
  (fstep # "start" /\ StringFields(given))
    => classified = Returned(PlaceholderRule(given))

\* C1 witness: a record classified placeholder by its padded email alone,
\* and only once the padding is trimmed.
C1_Witness ==
  /\ fstep = "classified"
  /\ classified = Returned(TRUE)
  /\ Get(given, "founder_first_name", EmptyStr) = S_Ann
  /\ Get(given, "founder_email", EmptyStr) = S_HelloZedPadded
  /\ Get(given, "founder_linkedin", EmptyStr) = S_AnnLinkedin

\* The default of an auxiliary field.
DefaultOf(k) ==
  CASE k = "job_openings" -> DEFAULT_JOBS
    [] k = "funding_stage" -> DEFAULT_STAGE
    [] k = "amount_raised" -> DEFAULT_AMOUNT
    [] k = "date_raised" -> DEFAULT_DATE

\* C2: the merge sets each auxiliary field to the record's value when that
\* is present and non-empty, and to the field's default otherwise (absent,
\* or present but empty).
C2_DefaultsWhenEmpty ==
  MergeDone =>
    \A k \in AuxFields :
      updated_company[k] =
        IF k \in DOMAIN given /\ given[k] # EmptyStr /\ ~IsNone(given[k])
          THEN given[k]
          ELSE DefaultOf(k)

\* C3: merging the result of a merge with the same override changes
\* nothing: the two results agree on every field.
C3_Idempotent == fstep = "remerged" => updated_twice = updated_company

\* C3 witness: a record without data_quality and without job_openings was
\* merged twice, and the first merge did change it.
C3_Witness ==
  /\ fstep = "remerged"
  /\ "job_openings" \notin DOMAIN given
  /\ Get(given, "data_quality", EmptyStr) = S_Pattern
  /\ updated_company # given

\* C4: the merge result holds the override's first name, last name, email,
\* LinkedIn and website, and the verified-data marker, whatever the record
\* held.
C4_OverrideFields ==
  MergeDone =>
    /\ updated_company["founder_first_name"] = override.founder_first
    /\ updated_company["founder_last_name"] = override.founder_last
    /\ updated_company["founder_email"] = override.founder_email
    /\ updated_company["founder_linkedin"] = override.founder_linkedin
    /\ updated_company["website"] = override.website
    /\ updated_company["data_quality"] = REAL_MARKER

\* C4 witness: a record that had its own website, names and data_quality
\* was merged.
C4_Witness ==
  /\ fstep = "merged"
  /\ Get(given, "website", EmptyStr) = S_AcmeSite
  /\ Get(given, "founder_first_name", EmptyStr) = S_Ann
  /\ Get(given, "data_quality", EmptyStr) = S_Pattern

\* C5: the merge result has every other field of the record with the same
\* value, has no key beyond the record's and the ten targets, and the call
\* leaves the record it was given as it was.
C5_Frame ==
  MergeDone =>
    /\ \A k \in (DOMAIN given) \ TargetFields :
         k \in DOMAIN updated_company /\ updated_company[k] = given[k]
    /\ DOMAIN updated_company \subseteq (DOMAIN given) \cup TargetFields
    /\ record = given

\* C5 witness: a record with a YC link and no website was merged.
C5_Witness ==
  /\ fstep = "merged"
  /\ "YC_Link" \in DOMAIN given
  /\ "website" \notin DOMAIN given
  /\ updated_company["website"] = override.website

\* ------------------------------------------ batch_extract_founders.main

\* Rows per file.
MaxRows == 3

\* The columns the scripts read or write, data_quality last.
FullHeader ==
  <<"Company_Name", "founder_first_name", "founder_last_name",
    "founder_email", "founder_linkedin", "website", "job_openings",
    "funding_stage", "amount_raised", "date_raised", "YC_Link",
    "data_quality">>

\* The same columns without data_quality.
ShortHeader == SubSeq(FullHeader, 1, Len(FullHeader) - 1)

Freya == REAL_FOUNDER_DATA[S_Freya]
Uplift == REAL_FOUNDER_DATA[S_UpliftAI]

\* A placeholder row of a company the table has: 12 cells, and 11 cells.
R_FreyaPattern ==
  <<S_Freya, S_Team, EmptyStr, S_HelloFreya, EmptyStr, EmptyStr, EmptyStr,
    S_SeriesA, EmptyStr, EmptyStr, S_AcmeLink, S_Pattern>>
R_FreyaPattern11 == SubSeq(R_FreyaPattern, 1, 11)

\* A placeholder row of a company the table does not have.
R_ZedPattern ==
  <<S_Zed, S_TeamPadded, EmptyStr, S_HelloZedPadded, S_Blank, EmptyStr,
    S_EngIntern, EmptyStr, EmptyStr, EmptyStr, EmptyStr, S_Pattern>>

\* A real row of a company the table does not have: 12, 11 and 13 cells.
R_AcmeReal ==
  <<S_Acme, S_Ann, S_Lee, S_AnnEmail, S_AnnLinkedin, S_AcmeSite,
    S_EngIntern, S_SeriesA, S_2M, S_Fall2024, S_AcmeLink, EmptyStr>>
R_AcmeReal11 == SubSeq(R_AcmeReal, 1, 11)
R_AcmeLong == R_AcmeReal \o <<S_Extra>>

\* A real row of a company the table has.
R_UpliftReal ==
  <<S_UpliftAI, Uplift.founder_first, Uplift.founder_last,
    Uplift.founder_email, Uplift.founder_linkedin, Uplift.website,
    EmptyStr, EmptyStr, EmptyStr, EmptyStr, EmptyStr, REAL_MARKER>>

\* Rows that end before the founder_linkedin cell.
R_ZedNoLinkedin == <<S_Zed, S_Ann, S_Lee, S_AnnEmail>>
R_FreyaNoLinkedin ==
  <<S_Freya, Freya.founder_first, Freya.founder_last, Freya.founder_email>>

RowUniverse ==
  {R_FreyaPattern, R_FreyaPattern11, R_ZedPattern, R_AcmeReal, R_AcmeReal11,
   R_AcmeLong, R_UpliftReal, R_ZedNoLinkedin, R_FreyaNoLinkedin}

RowLists == UNION {[1..n -> RowUniverse] : n \in 0..MaxRows}

\* The files a run may find: none, an empty one, or a header line followed
\* by rows (none of them a blank line).
Files ==
  {NoFile, [exists |-> TRUE, header |-> None, rows |-> <<>>]}
  \cup {[exists |-> TRUE, header |-> h, rows |-> r] :
          h \in {FullHeader, ShortHeader}, r \in RowLists}

\* Position of column k in the header.
ColumnOf(header, k) == CHOOSE c \in 1..Len(header) : header[c] = k

Columns(header) == {header[c] : c \in 1..Len(header)}

\* csv.DictReader.__next__: the dict of one row.  Cells beyond the header
\* go, as a list, under the key None; columns beyond the row get None.
DictRow(header, row) ==
  [k \in Columns(header)
          \cup (IF Len(row) > Len(header) THEN {NoneKey} ELSE {}) |->
     IF k \in Columns(header)
       THEN IF ColumnOf(header, k) <= Len(row)
              THEN row[ColumnOf(header, k)]
              ELSE None
       ELSE SubSeq(row, Len(header) + 1, Len(row))]

\* dict.update(other)
DictUpdate(d, other) ==
  [k \in (DOMAIN d) \cup (DOMAIN other) |->
     IF k \in DOMAIN other THEN other[k] ELSE d[k]]

\* The csv writer's text of a value: None is written as the empty string.
CellOf(v) == IF IsNone(v) THEN EmptyStr ELSE v

\* csv.DictWriter._dict_to_list: the cells of one row, in header order.
DictToList(header, rowdict) ==
  [c \in 1..Len(header) |-> CellOf(Get(rowdict, header[c], EmptyStr))]

\* The keys for which DictWriter raises ValueError (extrasaction='raise').
WrongFields(header, rowdict) == (DOMAIN rowdict) \ Columns(header)

FunctionsIdle ==
  /\ record = NoDict
  /\ given = NoDict
  /\ override = NoDict
  /\ fstep = "idle"
  /\ classified = Raised("")
  /\ updated_company = NoDict
  /\ updated_twice = NoDict

Init ==
  /\ FunctionsIdle
  /\ FirstRun
  /\ SlugIdle
  /\ ScriptsIdle
  /\ file \in Files
  /\ original = file
  /\ pc = "start"
  /\ exc = ""
  /\ companies = <<>>
  /\ fieldnames = None
  /\ idx = 1
  /\ updated = {}
  /\ updated_count = 0
  /\ pattern_count = 0
  /\ real_count = 0
  /\ written = 0
  /\ summary = NoSummary

\* The exception e leaves main; a with block on its way closes its file.
Abort(e) == pc' = "aborted" /\ exc' = e

\* Lines 586-589: open for reading, list(reader), reader.fieldnames.
ReadCSV ==
  /\ pc = "start"
  /\ IF ~file.exists
       THEN /\ Abort("FileNotFoundError")
            /\ UNCHANGED <<companies, fieldnames>>
       ELSE /\ companies' =
                 [i \in 1..Len(file.rows) |-> DictRow(file.header, file.rows[i])]
            /\ fieldnames' = file.header
            /\ pc' = "loaded"
            /\ UNCHANGED exc
  /\ UNCHANGED <<file, original, idx, updated, updated_count, pattern_count,
                 real_count, written, summary>>
  /\ UNCHANGED fvars
  /\ UNCHANGED xvars

\* Lines 595-603, merging every row the table names.
UpdateRowAnyNamed ==
  /\ pc = "loaded"
  /\ idx <= Len(companies)
  /\ LET company == companies[idx]
         company_name == Get(company, "Company_Name", EmptyStr)
     IN IF company_name \in DOMAIN REAL_FOUNDER_DATA
          THEN /\ companies' =
                    [companies EXCEPT ![idx] =
                       DictUpdate(company,
                         update_company_with_real_data(
                           company, REAL_FOUNDER_DATA[company_name]))]
               /\ updated' = updated \cup {idx}
               /\ updated_count' = updated_count + 1
          ELSE UNCHANGED <<companies, updated, updated_count>>
  /\ idx' = idx + 1
  /\ UNCHANGED <<pc, exc, file, original, fieldnames, pattern_count,
                 real_count, written, summary>>
  /\ UNCHANGED fvars
  /\ UNCHANGED xvars

\* Lines 595-603: one iteration of the loop.  is_pattern_data is called
\* only for a name the table has (the and of line 597 short-circuits).
UpdateRow ==
  /\ pc = "loaded"
  /\ idx <= Len(companies)
  /\ LET company == companies[idx]
         company_name == Get(company, "Company_Name", EmptyStr)
         named == company_name \in DOMAIN REAL_FOUNDER_DATA
         is_pattern == is_pattern_data(company)
     IN IF named /\ is_pattern.exc # ""
          THEN /\ Abort(is_pattern.exc)
               /\ UNCHANGED <<companies, updated, updated_count, idx>>
          ELSE /\ IF named /\ is_pattern.ret
                    THEN /\ companies' =
                              [companies EXCEPT ![idx] =
                                 DictUpdate(company,
                                   update_company_with_real_data(
                                     company, REAL_FOUNDER_DATA[company_name]))]
                         /\ updated' = updated \cup {idx}
                         /\ updated_count' = updated_count + 1
                    ELSE UNCHANGED <<companies, updated, updated_count>>
               /\ idx' = idx + 1
               /\ UNCHANGED <<pc, exc>>
  /\ UNCHANGED <<file, original, fieldnames, pattern_count, real_count,
                 written, summary>>
  /\ UNCHANGED fvars
  /\ UNCHANGED xvars

\* Lines 606-607 with the merged rows left out of the real count.
CountPatternNotUpdated ==
  /\ pc = "loaded"
  /\ idx > Len(companies)
  /\ \A i \in 1..Len(companies) : is_pattern_data(companies[i]).exc = ""
  /\ LET n == Cardinality({i \in 1..Len(companies) :
                             is_pattern_data(companies[i]).ret})
     IN /\ pattern_count' = n
        /\ real_count' = Len(companies) - n - updated_count
  /\ pc' = "counted"
  /\ UNCHANGED <<exc, file, original, companies, fieldnames, idx, updated,
                 updated_count, written, summary>>
  /\ UNCHANGED fvars
  /\ UNCHANGED xvars

\* Lines 606-607: the rows classified placeholder after the loop.
CountPattern ==
  /\ pc = "loaded"
  /\ idx > Len(companies)
  /\ IF \E i \in 1..Len(companies) : is_pattern_data(companies[i]).exc # ""
       THEN /\ Abort("AttributeError")
            /\ UNCHANGED <<pattern_count, real_count>>
       ELSE LET n == Cardinality({i \in 1..Len(companies) :
                                    is_pattern_data(companies[i]).ret})
            IN /\ pattern_count' = n
               /\ real_count' = Len(companies) - n
               /\ pc' = "counted"
               /\ UNCHANGED exc
  /\ UNCHANGED <<file, original, companies, fieldnames, idx, updated,
                 updated_count, written, summary>>
  /\ UNCHANGED fvars
  /\ UNCHANGED xvars

\* Line 611: open(input_file, 'w') truncates the file.
OpenForWrite ==
  /\ pc = "counted"
  /\ file' = [exists |-> TRUE, header |-> None, rows |-> <<>>]
  /\ pc' = "opened"
  /\ UNCHANGED <<original, exc, companies, fieldnames, idx, updated,
                 updated_count, pattern_count, real_count, written, summary>>
  /\ UNCHANGED fvars
  /\ UNCHANGED xvars

\* Lines 612-613: writeheader() zips fieldnames, a TypeError when the file
\* read was empty and fieldnames is None.
WriteHeader ==
  /\ pc = "opened"
  /\ IF fieldnames = None
       THEN Abort("TypeError") /\ UNCHANGED file
       ELSE /\ file' = [file EXCEPT !.header = fieldnames]
            /\ pc' = "writing"
            /\ UNCHANGED exc
  /\ UNCHANGED <<original, companies, fieldnames, idx, updated,
                 updated_count, pattern_count, real_count, written, summary>>
  /\ UNCHANGED fvars
  /\ UNCHANGED xvars

\* Line 614, writing only the rows the loop merged.
WriteRowUpdatedOnly ==
  /\ pc = "writing"
  /\ written < Len(companies)
  /\ WrongFields(fieldnames, companies[written + 1]) = {}
  /\ file' = IF written + 1 \in updated
               THEN [file EXCEPT !.rows =
                       Append(@, DictToList(fieldnames, companies[written + 1]))]
               ELSE file
  /\ written' = written + 1
  /\ UNCHANGED <<pc, exc, original, companies, fieldnames, idx, updated,
                 updated_count, pattern_count, real_count, summary>>
  /\ UNCHANGED fvars
  /\ UNCHANGED xvars

\* Line 614: writerows writes the next row, or raises ValueError for a row
\* with a key that is no column.
WriteRow ==
  /\ pc = "writing"
  /\ written < Len(companies)
  /\ IF WrongFields(fieldnames, companies[written + 1]) # {}
       THEN Abort("ValueError") /\ UNCHANGED <<file, written>>
       ELSE /\ file' = [file EXCEPT !.rows =
                          Append(@, DictToList(fieldnames, companies[written + 1]))]
            /\ written' = written + 1
            /\ UNCHANGED <<pc, exc>>
  /\ UNCHANGED <<original, companies, fieldnames, idx, updated,
                 updated_count, pattern_count, real_count, summary>>
  /\ UNCHANGED fvars
  /\ UNCHANGED xvars

\* Lines 614-628: the file is closed and the summary printed.
Finish ==
  /\ pc = "writing"
  /\ written = Len(companies)
  /\ summary' = [total |-> Len(companies), real |-> real_count,
                 pattern |-> pattern_count]
  /\ pc' = "done"
  /\ UNCHANGED <<file, original, exc, companies, fieldnames, idx, updated,
                 updated_count, pattern_count, real_count, written>>
  /\ UNCHANGED fvars
  /\ UNCHANGED xvars

Next ==
  \/ ReadCSV
  \/ UpdateRow
  \/ CountPattern
  \/ OpenForWrite
  \/ WriteHeader
  \/ WriteRow
  \/ Finish

Spec == Init /\ [][Next]_vars

\* ------------------------------------------------ claims on the driver

RowNumbers == 1..Len(original.rows)

\* The dict the loader makes of row i of the file the run started with.
Loaded(i) == DictRow(original.header, original.rows[i])

\* Row i of that file as cells under its header, a missing cell empty.
PaddedRow(i) ==
  [c \in 1..Len(original.header) |->
     IF c <= Len(original.rows[i]) THEN original.rows[i][c] ELSE EmptyStr]

\* Row i is a placeholder row whose company name is a key of the table.
Eligible(i) ==
  /\ Get(Loaded(i), "Company_Name", EmptyStr) \in DOMAIN REAL_FOUNDER_DATA
  /\ PlaceholderRule(Loaded(i))

\* C6: a row the loop has visited was merged exactly if it was a
\* placeholder row with a company name of the override table; every other
\* row that has been written out has the cells that were read.
C6_MergedIffEligible ==
  /\ \A i \in RowNumbers :
       (pc # "start" /\ i < idx) => (i \in updated <=> Eligible(i))
  /\ \A i \in RowNumbers \ updated :
       (pc \in {"writing", "done", "aborted"} /\ i <= written)
         => file.rows[i] = PaddedRow(i)

\* C6 witness: a run is done that merged a row, left alone a real row of a
\* company in the table, and left alone a placeholder row without override.
C6_Witness ==
  /\ pc = "done"
  /\ original.rows = <<R_FreyaPattern, R_UpliftReal, R_ZedPattern>>
  /\ updated = {1}
  /\ file.rows[1] # original.rows[1]

\* The override key a founder field is taken from.
OverrideValue(real_data, k) ==
  CASE k = "founder_first_name" -> real_data.founder_first
    [] k = "founder_last_name" -> real_data.founder_last
    [] k = "founder_email" -> real_data.founder_email
    [] k = "founder_linkedin" -> real_data.founder_linkedin
    [] k = "website" -> real_data.website

\* C7: a completed run leaves the header it read, as many rows as it read,
\* and as row i the row it read as row i: unchanged if not merged, and
\* otherwise with its non-target cells unchanged and its founder cells from
\* the override of its company name.
C7_AllRowsInOrder ==
  pc = "done" =>
    /\ file.exists
    /\ file.header = original.header
    /\ Len(file.rows) = Len(original.rows)
    /\ \A i \in RowNumbers :
         /\ Len(file.rows[i]) = Len(original.header)
         /\ \A c \in 1..Len(original.header) :
              LET k == original.header[c]
              IN IF i \in updated /\ k \in TargetFields
                   THEN k \in FounderFields =>
                          file.rows[i][c] =
                            OverrideValue(
                              REAL_FOUNDER_DATA[PaddedRow(i)[1]], k)
                   ELSE file.rows[i][c] = PaddedRow(i)[c]

\* C7 witness: a completed run over a repeated short row around a merged
\* row.
C7_Witness ==
  /\ pc = "done"
  /\ original.header = FullHeader
  /\ original.rows = <<R_AcmeReal11, R_FreyaPattern, R_AcmeReal11>>
  /\ Len(file.rows) = 3

\* The rows of the 3-row scenario: a placeholder row with an override, a
\* placeholder row without, and a real row.
ScenarioRows == <<R_FreyaPattern, R_ZedPattern, R_AcmeReal>>

RealBefore == {i \in RowNumbers : ~PlaceholderRule(Loaded(i))}

\* C8 as claimed: updated, still-placeholder and real (the rows already
\* real before the run) add up to the total; the scenario gives total=3,
\* updated=1, still_pattern=1, real=1.
C8_PartitionAsClaimed ==
  pc = "done" =>
    /\ summary.real = Cardinality(RealBefore)
    /\ updated_count + summary.pattern + summary.real = summary.total
    /\ original.rows = ScenarioRows =>
         /\ summary.total = 3
         /\ updated_count = 1
         /\ summary.pattern = 1
         /\ summary.real = 1

\* C8 as amended: total is the number of rows, updated the rows merged in
\* this run, still-placeholder the placeholder rows that were not merged,
\* and real the rows real after the merge pass, that is the rows already
\* real plus the rows merged: still-placeholder + real = total.  The
\* scenario gives total=3, updated=1, still_pattern=1, real=2.
C8_Counts ==
  pc = "done" =>
    /\ summary.total = Len(original.rows)
    /\ updated_count = Cardinality(updated)
    /\ summary.pattern =
         Cardinality({i \in RowNumbers \ updated : PlaceholderRule(Loaded(i))})
    /\ summary.real = Cardinality(RealBefore) + updated_count
    /\ summary.pattern + summary.real = summary.total
    /\ original.rows = ScenarioRows =>
         /\ summary.total = 3
         /\ updated_count = 1
         /\ summary.pattern = 1
         /\ summary.real = 2

\* C8 witness: the run over the 3-row scenario is done.
C8_Witness ==
  /\ pc = "done"
  /\ original.header = FullHeader
  /\ original.rows = ScenarioRows
  /\ summary.total = 3

\* C9: a run that aborts does so before the file is opened for writing:
\* the file still holds what it held when the run started.
C9_NoPartialWrite == pc = "aborted" => (written = 0 /\ file = original)

\* C10: classification never fails on a row the loader produced, whatever
\* cells the row lacks: no run ends in the AttributeError of a missing
\* value.
C10_NeverRaises ==
  /\ exc # "AttributeError"
  /\ \A i \in 1..Len(companies) : is_pattern_data(companies[i]).exc = ""

\* ------------------------------------------------ extract_company_slug

\* The literal text of the pattern r'/companies/([^/]+)'.
S_SlugPattern == <<"/","c","o","m","p","a","n","i","e","s","/">>

\* The marker without its leading slash.
S_BareMarker == <<"c","o","m","p","a","n","i","e","s","/">>

\* The last position of the run of non-slash characters that starts at p.
RECURSIVE SegmentEnd(_, _)
SegmentEnd(s, p) ==
  IF p + 1 <= Len(s) /\ s[p + 1] # "/" THEN SegmentEnd(s, p + 1) ELSE p

\* The pattern lit([^/]+) matches at position i of s.
MatchAt(s, lit, i) ==
  /\ i + Len(lit) <= Len(s)
  /\ SubSeq(s, i, i + Len(lit) - 1) = lit
  /\ s[i + Len(lit)] # "/"

\* re.search from position i on: group 1 of the leftmost match, or None.
RECURSIVE SearchFrom(_, _, _)
SearchFrom(s, lit, i) ==
  IF i > Len(s) THEN None
  ELSE IF MatchAt(s, lit, i)
    THEN SubSeq(s, i + Len(lit), SegmentEnd(s, i + Len(lit)))
    ELSE SearchFrom(s, lit, i + 1)

\* A slug extractor whose pattern lacks the leading slash.
extract_company_slug_bare(link) ==
  IF IsNone(link) \/ link = EmptyStr THEN None
  ELSE SearchFrom(link, S_BareMarker, 1)

\* extract_company_slug(yc_link), the same in get_founders_from_yc and in
\* extract_real_founders.
extract_company_slug(link) ==
  IF IsNone(link) \/ link = EmptyStr THEN None
  ELSE SearchFrom(link, S_SlugPattern, 1)

\* Parts of links.
MaxParts == 3

P_Host == <<"h","t","t","p","s",":","/","/","e","x","a","m","p","l","e",".","c","o","m">>
P_Acme == <<"a","c","m","e","-","i","n","c">>
P_About == <<"/","a","b","o","u","t">>
P_My == <<"/","m","y">>
P_Slash == <<"/">>

LinkParts ==
  {P_Host, S_SlugPattern, S_BareMarker, P_Acme, P_About, P_My, P_Slash}

RECURSIVE Concat(_)
Concat(parts) ==
  IF parts = <<>> THEN <<>> ELSE Head(parts) \o Concat(Tail(parts))

\* The links passed: None, and the texts of at most MaxParts parts.
Links ==
  {None} \cup
  {Concat(parts) : parts \in UNION {[1..n -> LinkParts] : n \in 0..MaxParts}}

InitSlug ==
  /\ FunctionsIdle
  /\ DriverIdle
  /\ FirstRun
  /\ ScriptsIdle
  /\ yc_link \in Links
  /\ slug = [exc |-> "", ret |-> None]
  /\ slug_pc = "start"

\* extract_company_slug(yc_link) is called.
CallSlug ==
  /\ slug_pc = "start"
  /\ slug' = Returned(extract_company_slug(yc_link))
  /\ slug_pc' = "returned"
  /\ UNCHANGED <<yc_link, run, first_output, first_exc, prog, ppc, pexc, json_file,
                 json_before, loaded, pattern_companies, main_return>>
  /\ UNCHANGED fvars
  /\ UNCHANGED dvars

NextSlug == CallSlug

SpecSlug == InitSlug /\ [][NextSlug]_vars

\* -------------------------------------------------- claims on the slug

\* The text lit occurs in s at position i.
Occurs(s, lit, i) ==
  /\ i + Len(lit) - 1 <= Len(s)
  /\ SubSeq(s, i, i + Len(lit) - 1) = lit

\* The characters of s from position p up to the next "/" or the end.
SegmentFrom(s, p) ==
  LET e == CHOOSE e \in (p - 1)..Len(s) :
             /\ \A j \in p..e : s[j] # "/"
             /\ e = Len(s) \/ s[e + 1] = "/"
  IN SubSeq(s, p, e)

\* The least of a non-empty set of positions.
Least(S) == CHOOSE i \in S : \A j \in S : i <= j

\* The slug as claimed: the segment after the first "companies/" (None if
\* that segment is empty).
ClaimedSlug(link) ==
  LET at == {i \in 1..Len(link) : Occurs(link, S_BareMarker, i)}
      seg == SegmentFrom(link, Least(at) + Len(S_BareMarker))
  IN IF IsNone(link) \/ link = EmptyStr \/ at = {} THEN None
     ELSE IF seg = EmptyStr THEN None ELSE seg

\* The slug as amended: the segment after the first "/companies/" that a
\* character other than "/" follows.
AmendedSlug(link) ==
  LET at == {i \in 1..Len(link) :
               /\ Occurs(link, S_SlugPattern, i)
               /\ i + Len(S_SlugPattern) <= Len(link)
               /\ link[i + Len(S_SlugPattern)] # "/"}
  IN IF IsNone(link) \/ link = EmptyStr \/ at = {} THEN None
     ELSE SegmentFrom(link, Least(at) + Len(S_SlugPattern))

\* C11 as claimed: for a link that is not empty and contains "companies/",
\* the result is the segment that follows the first "companies/", up to
\* the next "/" or the end; for any other link it is None.
C11_SlugAsClaimed ==
  slug_pc = "returned" => slug = Returned(ClaimedSlug(yc_link))

\* C11 as amended: the result is None for an empty or absent link; else, if
\* the link contains "/companies/" followed by a character other than "/",
\* it is the text after the first such "/companies/", up to the next "/" or
\* the end; else None.  The call never raises.  The three examples give
\* "acme-inc", None and None.
C11_Slug ==
  slug_pc = "returned" =>
    /\ slug = Returned(AmendedSlug(yc_link))
    /\ yc_link = P_Host \o S_SlugPattern \o P_Acme => slug.ret = P_Acme
    /\ yc_link = EmptyStr => slug.ret = None
    /\ yc_link = P_Host \o P_About => slug.ret = None

\* C11 witness: the slug of "/companies//companies/acme-inc", whose first
\* "/companies/" has no segment after it, was returned as "acme-inc".
C11_Witness ==
  /\ slug_pc = "returned"
  /\ yc_link = S_SlugPattern \o S_SlugPattern \o P_Acme
  /\ slug.ret = P_Acme

\* ------------------------------------------- the driver, run a second time

\* Lines 630-631, again: the script is started once more, on the file the
\* first run left when it ended or was ended; its locals are new.
RunAgain ==
  /\ pc \in {"done", "aborted"}
  /\ run = 1
  /\ run' = 2
  /\ first_output' = file
  /\ first_exc' = exc
  /\ original' = file
  /\ pc' = "start"
  /\ exc' = ""
  /\ companies' = <<>>
  /\ fieldnames' = None
  /\ idx' = 1
  /\ updated' = {}
  /\ updated_count' = 0
  /\ pattern_count' = 0
  /\ real_count' = 0
  /\ written' = 0
  /\ summary' = NoSummary
  /\ UNCHANGED file
  /\ UNCHANGED <<yc_link, slug, slug_pc, prog, ppc, pexc, json_file,
                 json_before, loaded, pattern_companies, main_return>>
  /\ UNCHANGED fvars

NextRerun == Next \/ RunAgain

SpecRerun == Init /\ [][NextRerun]_vars

\* C14: a second run of the driver on the file the first run left ends
\* with the file as the first run left it, header and rows; and when the
\* first run ran to its end, so does the second.
C14_RerunNoOp ==
  run = 2 =>
    /\ pc \in {"done", "aborted"} => file = first_output
    /\ first_exc = "" => pc # "aborted"

\* C14 witness: a second run is done on a three-row file whose first row
\* the first run had merged; the second run merged nothing.
C14_Witness ==
  /\ run = 2
  /\ first_exc = ""
  /\ pc = "done"
  /\ Len(file.rows) = 3
  /\ file.rows[1][1] = S_Freya
  /\ file.rows[1][Len(FullHeader)] = REAL_MARKER
  /\ file.header = FullHeader
  /\ updated = {}

\* ------------------------------------------------- the reporting scripts
\* get_founders_from_yc.py, extract_real_founders.py and
\* find_founders_batch.py, each run as a program on the same CSV file.

MaxScriptRows == 2

\* get_founders_from_yc.is_pattern_data
is_pattern_data_yc(company) ==
  LET first == Get(company, "founder_first_name", EmptyStr)
      email == Get(company, "founder_email", EmptyStr)
      linkedin == Get(company, "founder_linkedin", EmptyStr)
  IN IF IsNone(first) \/ IsNone(email) THEN Raised("AttributeError")
     ELSE LET founder_first == strip(first)
              founder_email == strip(email)
          IN IF founder_first = S_Team \/ founder_first = EmptyStr
               THEN Returned(TRUE)
             ELSE IF startswith(founder_email, S_HelloPrefix)
               THEN Returned(TRUE)
             ELSE IF IsNone(linkedin) THEN Raised("AttributeError")
             ELSE IF strip(linkedin) = EmptyStr THEN Returned(TRUE)
             ELSE Returned(FALSE)

\* extract_real_founders.is_pattern_data
is_pattern_data_extract(company) ==
  LET first == Get(company, "founder_first_name", EmptyStr)
      email == Get(company, "founder_email", EmptyStr)
      linkedin == Get(company, "founder_linkedin", EmptyStr)
  IN IF IsNone(first) \/ IsNone(email) THEN Raised("AttributeError")
     ELSE LET founder_first == strip(first)
              founder_email == strip(email)
          IN IF founder_first = S_Team \/ founder_first = EmptyStr
               THEN Returned(TRUE)
             ELSE IF startswith(founder_email, S_HelloPrefix)
               THEN Returned(TRUE)
             ELSE IF IsNone(linkedin) THEN Raised("AttributeError")
             ELSE IF strip(linkedin) = EmptyStr THEN Returned(TRUE)
             ELSE Returned(FALSE)

\* The if/elif chain of find_founders_batch without its last branch.
RowNeedsFoundersNoLinkedin(c) ==
  LET first == Get(c, "founder_first_name", EmptyStr)
      email == Get(c, "founder_email", EmptyStr)
  IN IF IsNone(first) \/ IsNone(email) THEN Raised("AttributeError")
     ELSE LET founder_first == strip(first)
              founder_email == strip(email)
          IN IF founder_first = S_Team \/ founder_first = EmptyStr
               THEN Returned(TRUE)
             ELSE IF startswith(founder_email, S_HelloPrefix)
               THEN Returned(TRUE)
             ELSE Returned(FALSE)

\* Lines 15-24 of find_founders_batch, the body of the loop over the
\* reader: whether row c is appended, or the AttributeError of None.strip().
RowNeedsFounders(c) ==
  LET first == Get(c, "founder_first_name", EmptyStr)
      email == Get(c, "founder_email", EmptyStr)
      linkedin == Get(c, "founder_linkedin", EmptyStr)
  IN IF IsNone(first) \/ IsNone(email) THEN Raised("AttributeError")
     ELSE LET founder_first == strip(first)
              founder_email == strip(email)
          IN IF founder_first = S_Team \/ founder_first = EmptyStr
               THEN Returned(TRUE)
             ELSE IF startswith(founder_email, S_HelloPrefix)
               THEN Returned(TRUE)
             ELSE IF IsNone(linkedin) THEN Raised("AttributeError")
             ELSE IF strip(linkedin) = EmptyStr THEN Returned(TRUE)
             ELSE Returned(FALSE)

\* [c for c in rows if test(c) = want], where outcome[i] is the outcome of
\* the test on rows[i]: the kept rows in order, or the first exception.
RECURSIVE Comprehension(_, _, _)
Comprehension(rows, outcome, want) ==
  IF rows = <<>> THEN Returned(<<>>)
  ELSE IF Head(outcome).exc # "" THEN Raised(Head(outcome).exc)
  ELSE LET rest == Comprehension(Tail(rows), Tail(outcome), want)
       IN IF rest.exc # "" THEN rest
          ELSE IF Head(outcome).ret = want
            THEN Returned(<<Head(rows)>> \o rest.ret)
          ELSE rest

\* json.dump of a row dict: the key None becomes the name "null", the
\* value None becomes null, a str a string, the list of extra cells an array.
JsonNull == <<"null">>
JsonKey(k) == IF k = NoneKey THEN "null" ELSE k
JsonValue(v) == IF IsNone(v) THEN JsonNull ELSE v
JsonObject(d) ==
  [j \in {JsonKey(k) : k \in DOMAIN d} |->
     LET k == CHOOSE x \in DOMAIN d : JsonKey(x) = j
     IN IF k = NoneKey THEN d[k] ELSE JsonValue(d[k])]
JsonArray(dicts) == [i \in 1..Len(dicts) |-> JsonObject(dicts[i])]

\* json.dump of every row read instead of the placeholder rows.
JsonDumpAll(kept, all) == JsonArray(all)

\* Lines 75-77 of get_founders_from_yc: the file's new content.
JsonDump(kept, all) == JsonArray(kept)

S_InputFile == "final_enriched_summer25 - final_enriched_summer25.csv"

\* A header without the founder_linkedin column.
NameHeader == <<"Company_Name", "founder_first_name", "founder_email">>

\* Real rows but for one field: blank linkedin, a hello@ address; and a real
\* row whose first name and address only contain the patterns.
R_AcmeBlankLinkedin == [R_AcmeReal EXCEPT ![5] = S_Blank]
R_AcmeHello == [R_AcmeReal EXCEPT ![4] = S_HelloZedPadded]
R_AcmeTeamwork == [R_AcmeReal EXCEPT ![2] = S_Teamwork, ![4] = S_OhHelloZed]
R_ZedPatternLong == R_ZedPattern \o <<S_Extra>>
R_ZedNameOnly == <<S_Zed>>

ScriptRowUniverse ==
  {R_FreyaPattern, R_ZedPattern, R_ZedPatternLong, R_AcmeReal, R_AcmeLong,
   R_AcmeBlankLinkedin, R_AcmeHello, R_AcmeTeamwork, R_ZedNoLinkedin,
   R_ZedNameOnly}

ScriptFiles ==
  {NoFile, [exists |-> TRUE, header |-> None, rows |-> <<>>]}
  \cup {[exists |-> TRUE, header |-> h, rows |-> r] :
          h \in {FullHeader, NameHeader},
          r \in UNION {[1..n -> ScriptRowUniverse] : n \in 0..MaxScriptRows}}

\* What an earlier run of get_founders_from_yc left behind.
StaleJson ==
  [exists |-> TRUE, rows |-> JsonArray(<<DictRow(FullHeader, R_ZedPattern)>>)]

Programs == {"get_founders_from_yc", "extract_real_founders",
             "find_founders_batch"}

InitScripts ==
  /\ FunctionsIdle
  /\ FirstRun
  /\ SlugIdle
  /\ file \in ScriptFiles
  /\ original = file
  /\ pc = "idle"
  /\ exc = ""
  /\ companies = <<>>
  /\ fieldnames = None
  /\ idx = 1
  /\ updated = {}
  /\ updated_count = 0
  /\ pattern_count = 0
  /\ real_count = 0
  /\ written = 0
  /\ summary = NoSummary
  /\ prog \in Programs
  /\ ppc = "start"
  /\ pexc = ""
  /\ json_file \in {NoJson, StaleJson}
  /\ json_before = json_file
  /\ loaded = <<>>
  /\ pattern_companies = <<>>
  /\ main_return = NotReturned

\* An exception nothing catches ends the program.
ScriptAbort(e) == ppc' = "aborted" /\ pexc' = e

\* What no script touches.
ScriptFrame ==
  /\ UNCHANGED <<prog, json_before, run, first_output, first_exc, yc_link,
                 slug, slug_pc>>
  /\ UNCHANGED dvars
  /\ UNCHANGED fvars

\* get_founders_from_yc lines 43-46, extract_real_founders lines 44-47:
\* open for reading, list(reader), reader.fieldnames.
ScriptRead ==
  /\ prog \in {"get_founders_from_yc", "extract_real_founders"}
  /\ ppc = "start"
  /\ IF ~file.exists
       THEN /\ ScriptAbort("FileNotFoundError")
            /\ UNCHANGED loaded
       ELSE /\ loaded' =
                 [i \in 1..Len(file.rows) |-> DictRow(file.header, file.rows[i])]
            /\ ppc' = "loaded"
            /\ UNCHANGED pexc
  /\ UNCHANGED <<json_file, pattern_companies, main_return>>
  /\ ScriptFrame

\* get_founders_from_yc lines 51-52: the two list comprehensions.  The
\* second one tests the same rows again and keeps a list that is only
\* counted.
YcClassify ==
  /\ prog = "get_founders_from_yc"
  /\ ppc = "loaded"
  /\ LET outcome == [i \in 1..Len(loaded) |-> is_pattern_data_yc(loaded[i])]
         pattern == Comprehension(loaded, outcome, TRUE)
         real == Comprehension(loaded, outcome, FALSE)
     IN IF pattern.exc # ""
          THEN ScriptAbort(pattern.exc) /\ UNCHANGED pattern_companies
        ELSE IF real.exc # ""
          THEN ScriptAbort(real.exc) /\ UNCHANGED pattern_companies
        ELSE /\ pattern_companies' = pattern.ret
             /\ ppc' = "classified"
             /\ UNCHANGED pexc
  /\ UNCHANGED <<json_file, loaded, main_return>>
  /\ ScriptFrame

\* extract_real_founders lines 52-53.
ExtractClassify ==
  /\ prog = "extract_real_founders"
  /\ ppc = "loaded"
  /\ LET outcome ==
           [i \in 1..Len(loaded) |-> is_pattern_data_extract(loaded[i])]
         pattern == Comprehension(loaded, outcome, TRUE)
         real == Comprehension(loaded, outcome, FALSE)
     IN IF pattern.exc # ""
          THEN ScriptAbort(pattern.exc) /\ UNCHANGED pattern_companies
        ELSE IF real.exc # ""
          THEN ScriptAbort(real.exc) /\ UNCHANGED pattern_companies
        ELSE /\ pattern_companies' = pattern.ret
             /\ ppc' = "classified"
             /\ UNCHANGED pexc
  /\ UNCHANGED <<json_file, loaded, main_return>>
  /\ ScriptFrame

\* get_founders_from_yc lines 58-83, the rest of main: return nothing when
\* no row was kept; else list the links (which only prints), write the JSON
\* file and return the four values.
YcReport ==
  /\ prog = "get_founders_from_yc"
  /\ ppc = "classified"
  /\ IF pattern_companies = <<>>
       THEN /\ main_return' = [returned |-> TRUE, value |-> None]
            /\ UNCHANGED json_file
       ELSE /\ json_file' =
                 [exists |-> TRUE, rows |-> JsonDump(pattern_companies, loaded)]
            /\ main_return' =
                 [returned |-> TRUE,
                  value |-> <<pattern_companies, loaded, S_InputFile,
                              file.header>>]
  /\ ppc' = "returned"
  /\ UNCHANGED <<pexc, loaded, pattern_companies>>
  /\ ScriptFrame

\* extract_real_founders lines 59-73, the rest of main.
ExtractReport ==
  /\ prog = "extract_real_founders"
  /\ ppc = "classified"
  /\ main_return' =
       IF pattern_companies = <<>>
         THEN [returned |-> TRUE, value |-> None]
         ELSE [returned |-> TRUE,
               value |-> <<pattern_companies, loaded, S_InputFile,
                           file.header>>]
  /\ ppc' = "returned"
  /\ UNCHANGED <<pexc, json_file, loaded, pattern_companies>>
  /\ ScriptFrame

\* get_founders_from_yc lines 85-87, extract_real_founders lines 75-77:
\* the __main__ block unpacks what main() returned into four names.
Unpack ==
  /\ prog \in {"get_founders_from_yc", "extract_real_founders"}
  /\ ppc = "returned"
  /\ IF IsNone(main_return.value)
       THEN ScriptAbort("TypeError")
       ELSE ppc' = "exited" /\ UNCHANGED pexc
  /\ UNCHANGED <<json_file, loaded, pattern_companies, main_return>>
  /\ ScriptFrame

\* find_founders_batch.get_companies_needing_founders, lines 7-26.
FindNeeding ==
  /\ prog = "find_founders_batch"
  /\ ppc = "start"
  /\ IF ~file.exists
       THEN /\ ScriptAbort("FileNotFoundError")
            /\ UNCHANGED <<loaded, pattern_companies>>
       ELSE LET rows == [i \in 1..Len(file.rows) |->
                           DictRow(file.header, file.rows[i])]
                outcome == [i \in 1..Len(rows) |-> RowNeedsFounders(rows[i])]
                kept == Comprehension(rows, outcome, TRUE)
            IN /\ loaded' = rows
               /\ IF kept.exc # ""
                    THEN ScriptAbort(kept.exc) /\ UNCHANGED pattern_companies
                    ELSE /\ pattern_companies' = kept.ret
                         /\ ppc' = "classified"
                         /\ UNCHANGED pexc
  /\ UNCHANGED <<json_file, main_return>>
  /\ ScriptFrame

\* find_founders_batch lines 28-38: main prints the list and returns it,
\* and the __main__ block keeps it.
FindMain ==
  /\ prog = "find_founders_batch"
  /\ ppc = "classified"
  /\ main_return' = [returned |-> TRUE, value |-> pattern_companies]
  /\ ppc' = "exited"
  /\ UNCHANGED <<pexc, json_file, loaded, pattern_companies>>
  /\ ScriptFrame

NextScripts ==
  \/ ScriptRead
  \/ YcClassify
  \/ ExtractClassify
  \/ YcReport
  \/ ExtractReport
  \/ Unpack
  \/ FindNeeding
  \/ FindMain

SpecScripts == InitScripts /\ [][NextScripts]_vars

\* --------------------------------------------------------- claims C12, C13

\* The program has ended, by falling off its end or by an exception.
Ended == ppc \in {"exited", "aborted"}

\* Every row of the file has a cell for each column of the header.
CompleteRows ==
  \A i \in RowNumbers : Len(original.rows[i]) >= Len(original.header)

\* C12: a script run on a CSV ends successfully whatever the file holds, a
\* file with no placeholder row or no row included, and only an I/O error
\* ends it abnormally.  Stated for the files whose rows all have a cell for
\* each column of the header.
C12_ExitsSuccessfully ==
  (Ended /\ CompleteRows) => pexc \in {"", "FileNotFoundError"}

\* The outcome of the batch driver's is_pattern_data on a row.
IsPatternRow(c) == is_pattern_data(c).ret

\* The script has gone through all rows without an exception.
RowsClassified ==
  \/ ppc \in {"classified", "returned", "exited"}
  \/ ppc = "aborted" /\ pexc = "TypeError"

\* C13: on every row read, the is_pattern_data of extract_real_founders and
\* of get_founders_from_yc and the test of get_companies_needing_founders
\* give the boolean (or the exception) that the batch driver's
\* is_pattern_data gives; and each script keeps exactly the rows for which
\* that boolean is true, each once and in input order.
C13_CopiesAgree ==
  /\ \A i \in 1..Len(loaded) :
       /\ is_pattern_data_yc(loaded[i]) = is_pattern_data(loaded[i])
       /\ is_pattern_data_extract(loaded[i]) = is_pattern_data(loaded[i])
       /\ RowNeedsFounders(loaded[i]) = is_pattern_data(loaded[i])
  /\ RowsClassified =>
       /\ \A i \in 1..Len(loaded) : is_pattern_data(loaded[i]).exc = ""
       /\ pattern_companies = SelectSeq(loaded, IsPatternRow)
  /\ (ppc = "aborted" /\ pexc = "AttributeError") =>
       \E i \in 1..Len(loaded) : is_pattern_data(loaded[i]).exc # ""

\* C13 witness: find_founders_batch has ended on a file of two rows, a real
\* one whose first name and address contain "Team" and "hello@", and one
\* that is real but for a blank LinkedIn value; it kept the second only.
C13_Witness ==
  /\ prog = "find_founders_batch"
  /\ ppc = "exited"
  /\ original.header = FullHeader
  /\ original.rows = <<R_AcmeTeamwork, R_AcmeBlankLinkedin>>
  /\ pattern_companies = <<loaded[2]>>

\* ---------------------------------------------------------------- claim C15

\* get_founders_from_yc.main has returned.
YcMainCompleted == prog = "get_founders_from_yc" /\ main_return.returned

\* Row i of the CSV as a JSON object: a name per column, null for a cell
\* the row does not have, the cells beyond the header under "null".
RowAsJson(i) ==
  LET header == original.header
      row == original.rows[i]
  IN [j \in Columns(header)
             \cup (IF Len(row) > Len(header) THEN {"null"} ELSE {}) |->
        IF j \in Columns(header)
          THEN IF ColumnOf(header, j) <= Len(row)
                 THEN row[ColumnOf(header, j)]
                 ELSE JsonNull
          ELSE SubSeq(row, Len(header) + 1, Len(row))]

\* The placeholder rows from row i on, as JSON objects in row order.
RECURSIVE PlaceholderRowsFrom(_)
PlaceholderRowsFrom(i) ==
  IF i > Len(original.rows) THEN <<>>
  ELSE (IF PlaceholderRule(Loaded(i)) THEN <<RowAsJson(i)>> ELSE <<>>)
         \o PlaceholderRowsFrom(i + 1)

\* C15 as claimed: after every completed run of get_founders_from_yc.main
\* the JSON file holds exactly the placeholder rows of the CSV, each once
\* and in row order (a missing file holding none), and the CSV is as it was.
C15_JsonAsClaimed ==
  YcMainCompleted =>
    /\ json_file.rows = PlaceholderRowsFrom(1)
    /\ file = original

\* C15, amended: after a completed run of get_founders_from_yc.main that
\* found a placeholder row, the JSON file holds exactly the placeholder rows
\* of the CSV, each once and in row order; after one that found none, the
\* JSON file is as it was before the run, missing or with its old content;
\* in both cases the CSV is as it was.
C15_Json ==
  YcMainCompleted =>
    /\ file = original
    /\ IF PlaceholderRowsFrom(1) # <<>>
         THEN json_file = [exists |-> TRUE, rows |-> PlaceholderRowsFrom(1)]
         ELSE json_file = json_before

\* C15 witness: main has returned on a file of a real row followed by a
\* placeholder row with an extra cell; the JSON file, which held another
\* list before, now holds that second row only.
C15_Witness ==
  /\ YcMainCompleted
  /\ json_before = StaleJson
  /\ original.header = FullHeader
  /\ original.rows = <<R_AcmeReal, R_ZedPatternLong>>
  /\ json_file = [exists |-> TRUE, rows |-> <<RowAsJson(2)>>]
  /\ file = original

====
